---- MODULE Spec2Model ----
(***************************************************************************)
(* Model of the WebGIS backend of src/main.py: module configuration, the   *)
(* startup hook, and the HTTP handlers over a PostGIS database.            *)
(*                                                                         *)
(* The database, the file system of temporary directories and the ASGI     *)
(* server that sends a returned FileResponse are the environment; each     *)
(* handler is one action, taken from the first line of the handler to its  *)
(* return or raise.  A request's inputs (path parameters, body, whether    *)
(* the database answers, which database call raises) are drawn with \E.    *)
(* get_layer_geojson, which checks the table and then queries it, is two   *)
(* actions, one for each of its awaited queries; the other handlers make   *)
(* one statement that depends on the database and are one action each.     *)
(*                                                                         *)
(* src/main.py reads the globals DB_USER, DB_PASS, DB_NAME, DB_HOST and    *)
(* DB_PORT and never assigns them.  Whether the namespace the module runs  *)
(* in binds them is part of the environment: Init takes both cases, and    *)
(* only a process in which they are bound gets as far as serving requests. *)
(***************************************************************************)
EXTENDS Integers, Sequences, FiniteSets, TLC

\* ------------------------------------------------------------------ bounds
MaxFeatures == 2     \* rows a dataset or a table holds at most
MaxConns    == 2     \* connections the database server accepts (max_connections)
MaxLon      == 186   \* centroid longitudes range over -MaxLon..MaxLon degrees
MaxLat      == 90    \* centroid latitudes are sampled from -MaxLat..MaxLat degrees

\* ------------------------------------------------------- program constants
EPSG_WGS84      == 4326    \* to_crs(epsg=4326), ST_SetSRID(..., 4326)
UTM_NORTH_BASE  == 32600
UTM_SOUTH_BASE  == 32700
UTM_LON_OFFSET  == 186
UTM_ZONE_WIDTH  == 6
SRID_UNKNOWN    == 0       \* PostGIS SRID of a geometry written without a CRS

VARIABLES
    databaseUrl,        \* os.environ["DATABASE_URL"]: Unset or a URL
    dbNames,            \* the globals DB_USER/DB_PASS/DB_NAME/DB_HOST/DB_PORT:
                        \* Unbound (src/main.py never assigns them) or a target
    pc,                 \* "import" | "startup" | "serving" | "crashed_import" | "crashed_startup"
    DATABASE_URL_SYNC,  \* the module global the engine is created from
    DATABASE_URL_ASYNC, \* the module global of the async URL
    tables,             \* the database: table name -> table record
    conns,              \* asyncpg connections currently open
    tmpfs,              \* files existing under temporary directories
    pending,            \* a FileResponse returned by a handler and not yet sent
    reading,            \* a get_layer_geojson suspended between its two queries
    last                \* the last completed request and its response

vars == <<databaseUrl, dbNames, pc, DATABASE_URL_SYNC, DATABASE_URL_ASYNC,
          tables, conns, tmpfs, pending, reading, last>>

\* ------------------------------------------------------------ URLs, config
Unset   == [scheme |-> "", rest |-> ""]
Unbound == "unbound"
NoUrl   == [scheme |-> "none", rest |-> "none"]

LocalTarget == "postgres:4721040073@localhost:5432/webgis_db"
CloudTarget == "user:pw@cloud.render.com/webgis"

\* a URL is its scheme and what follows "://"
Url(scheme, rest) == [scheme |-> scheme, rest |-> rest]

\* s.startswith("postgres://")
StartsWithPostgres(u) == u.scheme = "postgres"

\* s.replace("postgres://", "postgresql://", 1)
ReplacePostgres(u) == IF u.scheme = "postgres" THEN Url("postgresql", u.rest) ELSE u

\* s.replace("postgresql://", "postgresql+asyncpg://")
ReplaceAsync(u) == IF u.scheme = "postgresql" THEN Url("postgresql+asyncpg", u.rest) ELSE u

\* lines 36-52: the first configuration block
ConfigBlock1 ==
    IF databaseUrl # Unset
    THEN LET db_url == IF StartsWithPostgres(databaseUrl)
                       THEN ReplacePostgres(databaseUrl) ELSE databaseUrl
         IN  [sync |-> db_url, async |-> ReplaceAsync(db_url), raised |-> FALSE]
    ELSE [sync |-> Url("postgresql", LocalTarget),
          async |-> Url("postgresql+asyncpg", LocalTarget), raised |-> FALSE]

\* lines 55-66: the second configuration block, which overwrites the first;
\* its else branch formats DB_USER..DB_NAME, a NameError when they are unbound
ConfigBlock2(b1) ==
    IF databaseUrl # Unset
    THEN LET env == IF StartsWithPostgres(databaseUrl)
                    THEN ReplacePostgres(databaseUrl) ELSE databaseUrl
         IN  [sync |-> env, async |-> ReplaceAsync(env), raised |-> FALSE]
    ELSE IF dbNames = Unbound
         THEN [sync |-> b1.sync, async |-> b1.async, raised |-> TRUE]
         ELSE [sync |-> Url("postgresql", dbNames),
               async |-> Url("postgresql+asyncpg", dbNames), raised |-> FALSE]

\* import of the module: lines 36-83
Configure ==
    /\ pc = "import"
    /\ LET c == ConfigBlock2(ConfigBlock1)
       IN  /\ DATABASE_URL_SYNC'  = c.sync
           /\ DATABASE_URL_ASYNC' = c.async
           /\ pc' = IF c.raised THEN "crashed_import" ELSE "startup"
    /\ UNCHANGED <<databaseUrl, dbNames, tables, conns, tmpfs, pending, reading, last>>

\* startup_msg formats DB_HOST, DB_PORT and DB_USER; an exception in a startup
\* hook fails the application's startup
startup_msg ==
    /\ pc = "startup"
    /\ pc' = IF dbNames = Unbound THEN "crashed_startup" ELSE "serving"
    /\ UNCHANGED <<databaseUrl, dbNames, DATABASE_URL_SYNC, DATABASE_URL_ASYNC,
                   tables, conns, tmpfs, pending, reading, last>>

\* the target the shared SQLAlchemy engine connects to
EngineTarget == DATABASE_URL_SYNC.rest

\* the target asyncpg.connect is given by get_db_connection
ConnectionTarget == dbNames

\* ------------------------------------------------------------- the database
\* an uploaded file's name is a stem and an extension; the stem is a sequence
\* of characters
Stems == { <<"A", " ">>, <<"a", "_">> }
Extensions == { ".shp", ".zip" }

LowerChar(c) == IF c = "A" THEN "a" ELSE c
\* str.lower()
Lower(s) == [i \in 1..Len(s) |-> LowerChar(s[i])]
\* str.replace(" ", "_")
ReplaceSpaces(s) == [i \in 1..Len(s) |-> IF s[i] = " " THEN "_" ELSE s[i]]

\* line 193: os.path.splitext(file.filename)[0].replace(" ", "_").lower()
TableNameOf(stem) == Lower(ReplaceSpaces(stem))

\* the tables the database can hold
TableNames == { TableNameOf(s) : s \in Stems }

\* the {table} path parameter of a request: a table's name, or a name with a
\* double quote in it (which names no table here)
QuoteName == <<"a", "\"">>
PathNames == TableNames \cup {QuoteName}

\* a name PostgreSQL parses as an unquoted identifier that denotes itself
IsPlainIdent(name) == \A i \in 1..Len(name) : name[i] \in {"a", "_"}

\* f'"{table}"' is one quoted identifier when the name holds no double quote;
\* with one inside, the statement it is put in is a syntax error
Interpolates(name) == \A i \in 1..Len(name) : name[i] # "\""

NoTable == [exists |-> FALSE, rows |-> 0, srid |-> SRID_UNKNOWN,
            geomCol |-> "none", imported |-> 0]

Table(rows, srid, geomCol, imported) ==
    [exists |-> TRUE, rows |-> rows, srid |-> srid, geomCol |-> geomCol,
     imported |-> imported]

Exists(db, table) == table \in DOMAIN db /\ db[table].exists

\* number of tables registered in geometry_columns
RECURSIVE CountTables(_, _)
CountTables(db, names) ==
    IF names = {} THEN 0
    ELSE LET t == CHOOSE x \in names : TRUE
         IN  (IF db[t].exists THEN 1 ELSE 0) + CountTables(db, names \ {t})

\* to_regclass taken to resolve every name that is an identifier
ToRegclassWithoutLookup(db, table, softErrors) ==
    IF ~IsPlainIdent(table) THEN (IF softErrors THEN "null" ELSE "raise")
    ELSE "valid"

\* SELECT to_regclass($1::text): the relation, NULL when there is none; a name
\* that is no identifier is a syntax error, which a server reporting input
\* errors softly turns into NULL
ToRegclass(db, table, softErrors) ==
    IF ~IsPlainIdent(table) THEN (IF softErrors THEN "null" ELSE "raise")
    ELSE IF Exists(db, table) THEN "valid" ELSE "null"

\* DROP TABLE "t": an error when the table does not exist
DropTable(db, table) ==
    IF Interpolates(table) /\ Exists(db, table)
    THEN [raised |-> FALSE, db |-> [db EXCEPT ![table] = NoTable]]
    ELSE [raised |-> TRUE, db |-> db]

\* f'DROP TABLE IF EXISTS "{table}"'
DropTableIfExists(db, table) ==
    IF ~Interpolates(table) THEN [raised |-> TRUE, db |-> db]
    ELSE IF Exists(db, table)
    THEN [raised |-> FALSE, db |-> [db EXCEPT ![table] = NoTable]]
    ELSE [raised |-> FALSE, db |-> db]

\* SELECT json_build_object('type', 'FeatureCollection', 'features',
\*        COALESCE(json_agg(ST_AsGeoJSON(t.*)::json), '[]')) FROM "{table}":
\* the number of features, an error when the table does not exist
SelectFeatureCollection(db, table) ==
    IF Interpolates(table) /\ Exists(db, table)
    THEN [raised |-> FALSE, n |-> db[table].rows]
    ELSE [raised |-> TRUE, n |-> 0]

\* f'ALTER TABLE "{table}" ADD COLUMN "{fieldName}" {sql_type}'
AlterTableAddColumn(db, table) ==
    IF Interpolates(table) /\ Exists(db, table)
    THEN [raised |-> FALSE] ELSE [raised |-> TRUE]

\* --------------------------------------------------- requests and responses
\* acquired: get_db_connection returned a connection; faulted: a database call
\* or a file write failed for a reason of the environment's; existed: the table existed at the request's start;
\* changed: the request changed the database; imported: for an export, the
\* count the upload that wrote the table reported (0: the table was not
\* written by an upload, or was changed since)
NoRequest ==
    [op |-> "none", table |-> <<>>, status |-> 0, body |-> "", n |-> 0,
     srid |-> 0, lon |-> 0, lat |-> 0, acquired |-> FALSE, faulted |-> FALSE,
     existed |-> FALSE, changed |-> FALSE, imported |-> 0]

Request(op, table) == [NoRequest EXCEPT !.op = op, !.table = table]

Response(req, status, body, n) ==
    [req EXCEPT !.status = status, !.body = body, !.n = n]

Serving == pc = "serving" /\ pending.path = "none"

\* get_db_connection: the connection, or HTTPException(500) when connecting
\* raises (the NameError of an unbound DB_* name included)
get_db_connection(reach) ==
    IF dbNames = Unbound THEN "error"
    ELSE IF ~reach \/ conns >= MaxConns THEN "error"
    ELSE "conn"

Acquire(c) == c + 1
Close(c)   == c - 1

\* the open connections after a handler that acquired one and did or did not
\* close it
AfterRequest(acquired, closed) ==
    IF ~acquired THEN conns
    ELSE IF closed THEN Close(Acquire(conns)) ELSE Acquire(conns)

\* the database as a request on an asyncpg connection meets it: whether it
\* accepts the connection, and the 1-based index of the call on it that raises
\* for a reason of the server's (0: none), out of `calls` calls
DbRuns(calls) ==
    {[reach |-> FALSE, fault |-> 0]} \cup {[reach |-> TRUE, fault |-> k] : k \in 0..calls}

\* ------------------------------------------------------------ the handlers
\* Every handler below yields an outcome [status, body, n, acquired, closed,
\* db]: the response, whether get_db_connection returned a connection, whether
\* conn.close() ran, and the database it leaves.

Outcome(status, body, n, acquired, closed, db) ==
    [status |-> status, body |-> body, n |-> n, acquired |-> acquired,
     closed |-> closed, db |-> db]

\* the handler's outcome becomes the state: the database, the open
\* connections and the recorded response
Finish(req, o, fault) ==
    /\ tables' = o.db
    /\ conns' = AfterRequest(o.acquired, o.closed)
    /\ last' = [Response(req, o.status, o.body, o.n) EXCEPT
                    !.acquired = o.acquired,
                    !.faulted = (o.acquired /\ fault # 0),
                    !.existed = Exists(tables, req.table),
                    !.changed = (o.db # tables)]
    /\ UNCHANGED <<databaseUrl, dbNames, pc, DATABASE_URL_SYNC,
                   DATABASE_URL_ASYNC, tmpfs, pending, reading>>

\* test_db: the whole body is inside try/except Exception, conn.close() is the
\* statement after the two fetchval calls
test_db_outcome(reach, fault) ==
    IF get_db_connection(reach) # "conn"
    THEN Outcome(500, "error", 0, FALSE, FALSE, tables)
    ELSE IF fault \in {1, 2}
    THEN Outcome(500, "error", 0, TRUE, FALSE, tables)
    ELSE Outcome(200, "success", 0, TRUE, TRUE, tables)

test_db ==
    /\ Serving
    /\ \E db \in DbRuns(2) :
          Finish(Request("test_db", <<>>), test_db_outcome(db.reach, db.fault), db.fault)

\* get_layers: try/finally around the catalog query
get_layers_outcome(reach, fault) ==
    IF get_db_connection(reach) # "conn"
    THEN Outcome(500, "Database connection error", 0, FALSE, FALSE, tables)
    ELSE IF fault = 1
    THEN Outcome(500, "Internal Server Error", 0, TRUE, TRUE, tables)
    ELSE Outcome(200, "layers", CountTables(tables, TableNames), TRUE, TRUE, tables)

get_layers ==
    /\ Serving
    /\ \E db \in DbRuns(1) :
          Finish(Request("get_layers", <<>>),
                 get_layers_outcome(db.reach, db.fault), db.fault)

\* get_layer_geojson awaits two queries on its connection, and other requests
\* run while it is suspended between them.
NoReading == [active |-> FALSE, table |-> <<>>, existed |-> FALSE]

\* lines 150-155: the connection, to_regclass, 404 when it is NULL; "query"
\* when the handler goes on to the aggregate
get_layer_geojson_outcome(table, reach, fault, softErrors) ==
    IF get_db_connection(reach) # "conn"
    THEN Outcome(500, "Database connection error", 0, FALSE, FALSE, tables)
    ELSE LET valid == ToRegclass(tables, table, softErrors)
         IN  IF fault = 1 \/ valid = "raise"
             THEN Outcome(500, "Internal Server Error", 0, TRUE, TRUE, tables)
             ELSE IF valid = "null"
             THEN Outcome(404, "Layer not found", 0, TRUE, TRUE, tables)
             ELSE Outcome(0, "query", 0, TRUE, FALSE, tables)

get_layer_geojson ==
    /\ Serving
    /\ ~reading.active
    /\ \E table \in PathNames, db \in DbRuns(1), softErrors \in BOOLEAN :
          LET o == get_layer_geojson_outcome(table, db.reach, db.fault, softErrors)
          IN  IF o.body = "query"
              THEN /\ conns' = Acquire(conns)
                   /\ reading' = [active |-> TRUE, table |-> table,
                                   existed |-> Exists(tables, table)]
                   /\ UNCHANGED <<databaseUrl, dbNames, pc, DATABASE_URL_SYNC,
                                  DATABASE_URL_ASYNC, tables, tmpfs, pending, last>>
              ELSE Finish(Request("get_layer_geojson", table), o, db.fault)

\* lines 157-168: the aggregate over the table, the response, finally close
get_layer_geojson_query_outcome(table, fault) ==
    LET result == SelectFeatureCollection(tables, table)
    IN  IF fault = 1 \/ result.raised
        THEN Outcome(500, "Internal Server Error", 0, TRUE, TRUE, tables)
        ELSE Outcome(200, "FeatureCollection", result.n, TRUE, TRUE, tables)

get_layer_geojson_query ==
    /\ pc = "serving"
    /\ reading.active
    /\ \E fault \in 0..1 :
          LET o == get_layer_geojson_query_outcome(reading.table, fault)
          IN  /\ conns' = IF o.closed THEN Close(conns) ELSE conns
              /\ last' = [Response(Request("get_layer_geojson", reading.table),
                                   o.status, o.body, o.n) EXCEPT
                             !.acquired = TRUE,
                             !.faulted = (fault # 0),
                             !.existed = reading.existed]
    /\ reading' = NoReading
    /\ UNCHANGED <<databaseUrl, dbNames, pc, DATABASE_URL_SYNC,
                   DATABASE_URL_ASYNC, tables, tmpfs, pending>>

\* delete_layer: DROP TABLE IF EXISTS inside try/finally, nothing caught
delete_layer_outcome(table, reach, fault) ==
    IF get_db_connection(reach) # "conn"
    THEN Outcome(500, "Database connection error", 0, FALSE, FALSE, tables)
    ELSE LET d == DropTableIfExists(tables, table)
         IN  IF fault = 1 \/ d.raised
             THEN Outcome(500, "Internal Server Error", 0, TRUE, TRUE, tables)
             ELSE Outcome(200, "deleted", 0, TRUE, TRUE, d.db)

delete_layer ==
    /\ Serving
    /\ \E table \in PathNames, db \in DbRuns(1) :
          Finish(Request("delete_layer", table),
                 delete_layer_outcome(table, db.reach, db.fault), db.fault)

\* add_field: type_map.get(fieldType, 'TEXT'), ALTER TABLE ... ADD COLUMN;
\* any exception becomes HTTPException(400)
FieldTypes == {"text", "float", "int", "date", "other"}

TypeMap(fieldType) ==
    CASE fieldType = "text"  -> "VARCHAR(255)"
      [] fieldType = "float" -> "FLOAT"
      [] fieldType = "int"   -> "INTEGER"
      [] fieldType = "date"  -> "DATE"
      [] OTHER               -> "TEXT"

add_field_outcome(table, fieldType, reach, fault) ==
    IF get_db_connection(reach) # "conn"
    THEN Outcome(500, "Database connection error", 0, FALSE, FALSE, tables)
    ELSE IF fault = 1 \/ AlterTableAddColumn(tables, table).raised
    THEN Outcome(400, "error", 0, TRUE, TRUE, tables)
    ELSE Outcome(200, TypeMap(fieldType), 0, TRUE, TRUE, tables)

add_field ==
    /\ Serving
    /\ \E table \in PathNames, fieldType \in FieldTypes, db \in DbRuns(1) :
          Finish(Request("add_field", table),
                 add_field_outcome(table, fieldType, db.reach, db.fault), db.fault)

\* run_custom_query: the statement is a verb and the table it names
Verbs == {"SELECT", "select", "CREATE", "INSERT", "DELETE", "DROP", "EXPLAIN?"}

\* str.upper()
Upper(verb) == IF verb = "select" THEN "SELECT" ELSE verb

\* req.sql.strip().upper().startswith("SELECT")
IsSelect(verb) == Upper(verb) = "SELECT"

\* conn.execute(sql) of a statement that is not a SELECT: the database after
\* it, or an error
Execute(db, verb, table) ==
    CASE verb = "CREATE" ->
            IF db[table].exists THEN [raised |-> TRUE, db |-> db]
            ELSE [raised |-> FALSE,
                  db |-> [db EXCEPT ![table] = Table(0, EPSG_WGS84, "geom", 0)]]
      [] verb = "INSERT" ->
            IF ~db[table].exists \/ db[table].rows >= MaxFeatures
            THEN [raised |-> TRUE, db |-> db]
            ELSE [raised |-> FALSE,
                  db |-> [db EXCEPT ![table].rows = @ + 1, ![table].imported = 0]]
      [] verb = "DELETE" ->
            IF ~db[table].exists THEN [raised |-> TRUE, db |-> db]
            ELSE [raised |-> FALSE,
                  db |-> [db EXCEPT ![table].rows = 0, ![table].imported = 0]]
      [] verb = "DROP" -> DropTable(db, table)
      [] OTHER -> [raised |-> TRUE, db |-> db]

\* run_custom_query: try / except Exception -> 400 / finally close
run_custom_query_outcome(verb, table, reach, fault) ==
    IF get_db_connection(reach) # "conn"
    THEN Outcome(500, "Database connection error", 0, FALSE, FALSE, tables)
    ELSE IF IsSelect(verb)
    THEN LET result == SelectFeatureCollection(tables, table)
         IN  IF fault = 1 \/ result.raised
             THEN Outcome(400, "error", 0, TRUE, TRUE, tables)
             ELSE Outcome(200, "FeatureCollection", result.n, TRUE, TRUE, tables)
    ELSE LET e == Execute(tables, verb, table)
         IN  IF fault = 1 \/ e.raised
             THEN Outcome(400, "error", 0, TRUE, TRUE, tables)
             ELSE Outcome(200, "status", 0, TRUE, TRUE, e.db)

run_custom_query ==
    /\ Serving
    /\ \E verb \in Verbs, table \in TableNames, db \in DbRuns(1) :
          Finish(Request("run_custom_query", table),
                 run_custom_query_outcome(verb, table, db.reach, db.fault), db.fault)

\* create_buffer: centroid coordinates in whole degrees
Longitudes == (0 - MaxLon)..MaxLon
Latitudes  == {0 - MaxLat, -33, 0, 37, MaxLat}

\* the zone computed from the offset 180 of the usual zone formula, without
\* the 6 degrees that stand for its "+ 1"
UtmSridOffset180(lon, lat) ==
    IF lat > 0
    THEN UTM_NORTH_BASE + ((lon + 180) \div UTM_ZONE_WIDTH)
    ELSE UTM_SOUTH_BASE + ((lon + 180) \div UTM_ZONE_WIDTH)

\* lines 239-244: the utm_srid CTE
UtmSrid(lon, lat) ==
    IF lat > 0
    THEN UTM_NORTH_BASE + ((lon + UTM_LON_OFFSET) \div UTM_ZONE_WIDTH)
    ELSE UTM_SOUTH_BASE + ((lon + UTM_LON_OFFSET) \div UTM_ZONE_WIDTH)

\* the rows of spatial_ref_sys ST_Transform can use: UTM zones 1-60 north and
\* south, and the two UPS systems that follow them (EPSG 32661, 32761)
SridExists(srid) == srid \in (32601..32661) \cup (32701..32761)

\* create_buffer: try / except Exception -> 500 / finally close
create_buffer_outcome(lon, lat, reach, fault) ==
    IF get_db_connection(reach) # "conn"
    THEN Outcome(500, "Database connection error", 0, FALSE, FALSE, tables)
    ELSE IF fault = 1 \/ ~SridExists(UtmSrid(lon, lat))
    THEN Outcome(500, "error", 0, TRUE, TRUE, tables)
    ELSE Outcome(200, "Feature", 1, TRUE, TRUE, tables)

\* the handler on a request whose geometry has its centroid at (lon, lat)
CreateBuffer(lon, lat) ==
    \E db \in DbRuns(1) :
       LET o == create_buffer_outcome(lon, lat, db.reach, db.fault)
           req == [Request("create_buffer", <<>>) EXCEPT
                      !.lon = lon, !.lat = lat,
                      !.srid = IF o.acquired /\ db.fault = 0
                               THEN UtmSrid(lon, lat) ELSE 0]
       IN  Finish(req, o, db.fault)

\* among the other requests: the two centroids of the specification's
\* examples and the antimeridian
create_buffer ==
    /\ Serving
    /\ \E c \in {<<-122, 37>>, <<151, -33>>, <<180, 37>>} : CreateBuffer(c[1], c[2])

\* the request received in the initial state of SpecBuffer is handled
create_buffer_received ==
    /\ Serving
    /\ last.op = "create_buffer" /\ last.status = 0
    /\ CreateBuffer(last.lon, last.lat)

\* ------------------------------------------------ temporary directories
TmpFile(dir, name) == [dir |-> dir, name |-> name]

\* leaving `with tempfile.TemporaryDirectory()`: the directory and everything
\* in it are removed
TemporaryDirectoryExit(fs, dir) == { f \in fs : f.dir # dir }

\* ---------------------------------------------------------------- upload
\* an uploaded file: its name, whether a .zip holds a .shp entry, the CRS the
\* dataset carries (0: none), its number of features, whether it can be read
CrsValues == {0, EPSG_WGS84, 32647}

Uploads ==
    { f \in [stem : Stems, ext : Extensions, hasShp : BOOLEAN, crs : CrsValues,
             n : 1..MaxFeatures, readable : BOOLEAN] :
        /\ (f.ext # ".zip" => ~f.hasShp)
        /\ (~f.readable \/ (f.ext = ".zip" /\ ~f.hasShp) => f.crs = 0 /\ f.n = 1) }

\* lines 195-196: the CRS of the frame that is written
CrsWritten(crs) == IF crs # 0 THEN EPSG_WGS84 ELSE crs

\* the SRID to_postgis gives the geometry column
SridOf(crs) == IF crs = 0 THEN SRID_UNKNOWN ELSE crs

\* lines 177-178, 183-185: the files in the temporary directory
UploadFiles(file) ==
    {TmpFile("upload", "file")}
      \cup (IF file.ext = ".zip" /\ file.hasShp
            THEN {TmpFile("upload", "member.shp")} ELSE {})
      \cup (IF file.ext = ".zip" /\ ~file.hasShp
            THEN {TmpFile("upload", "member.txt")} ELSE {})

\* lines 181-199, the body of the try: what it raises, the response it
\* returns, the database it leaves
UploadTry(file, dbFail) ==
    LET shp_files == { f \in UploadFiles(file) : f.name = "member.shp" }
        table_name == TableNameOf(file.stem)
    IN  IF file.ext = ".zip" /\ shp_files = {}
        THEN [raised |-> "HTTPException", status |-> 400, n |-> 0, db |-> tables]
        ELSE IF ~file.readable \/ dbFail
        THEN [raised |-> "Exception", status |-> 500, n |-> 0, db |-> tables]
        ELSE [raised |-> "none", status |-> 200, n |-> file.n,
              db |-> [tables EXCEPT ![table_name] =
                        Table(file.n, SridOf(CrsWritten(file.crs)), "geometry", file.n)]]

\* lines 201-203: except Exception -> HTTPException(500); HTTPException is an
\* Exception
UploadExcept(r) ==
    IF r.raised # "none" THEN [r EXCEPT !.status = 500] ELSE r

upload_file ==
    /\ Serving
    /\ \E file \in Uploads, dbFail \in BOOLEAN :
          LET r == UploadExcept(UploadTry(file, dbFail))
              req == Request("upload_file", TableNameOf(file.stem))
          IN  /\ tables' = r.db
              /\ tmpfs' = TemporaryDirectoryExit(tmpfs \cup UploadFiles(file), "upload")
              /\ last' = [Response(req, r.status,
                                    IF file.ext = ".zip" /\ ~file.hasShp
                                    THEN "zip without shp"
                                    ELSE IF r.status = 200 THEN "imported" ELSE "error",
                                    r.n) EXCEPT
                              !.existed = Exists(tables, req.table),
                              !.faulted = dbFail,
                              !.changed = (r.db # tables)]
    /\ UNCHANGED <<databaseUrl, dbNames, pc, DATABASE_URL_SYNC,
                   DATABASE_URL_ASYNC, conns, pending, reading>>

\* ---------------------------------------------------------------- export
NoPending == [path |-> "none", file |-> TmpFile("none", "none"), table |-> <<>>,
              n |-> 0, imported |-> 0]

\* line 266: gpd.read_postgis(sql, con=engine, geom_col='geom')
ReadPostgis(db, table, dbFail) ==
    IF dbFail \/ ~Interpolates(table) \/ ~Exists(db, table)
    THEN [raised |-> TRUE, n |-> 0]
    ELSE IF db[table].geomCol # "geom"
    THEN [raised |-> TRUE, n |-> 0]
    ELSE [raised |-> FALSE, n |-> db[table].rows]

\* lines 268-280: the files written, the FileResponse built, and the files
\* left when the with block is left by the return
ExportFiles == {TmpFile("export", "shapefile"), TmpFile("export", "shapefile.zip")}

export_shapefile ==
    /\ Serving
    /\ \E table \in PathNames, dbFail \in BOOLEAN, writeFail \in BOOLEAN :
          LET gdf == ReadPostgis(tables, table, dbFail)
              req == [Request("export_shapefile", table) EXCEPT
                         !.existed = Exists(tables, table),
                         !.faulted = (dbFail \/ writeFail),
                         !.imported = IF Exists(tables, table)
                                      THEN tables[table].imported ELSE 0]
          IN  IF gdf.raised \/ writeFail
              THEN /\ last' = Response(req, 500, "error", 0)
                   /\ tmpfs' = IF gdf.raised THEN tmpfs
                               ELSE TemporaryDirectoryExit(tmpfs \cup ExportFiles, "export")
                   /\ UNCHANGED pending
              ELSE /\ pending' = [path |-> "zip",
                                  file |-> TmpFile("export", "shapefile.zip"),
                                  table |-> table, n |-> gdf.n,
                                  imported |-> tables[table].imported]
                   /\ tmpfs' = TemporaryDirectoryExit(tmpfs \cup ExportFiles, "export")
                   /\ UNCHANGED last
    /\ UNCHANGED <<databaseUrl, dbNames, pc, DATABASE_URL_SYNC,
                   DATABASE_URL_ASYNC, tables, conns, reading>>

\* the server sends the FileResponse the handler returned: the file is read
\* from its path now, and a missing file is an error instead of a download
SendFileResponse ==
    /\ pc = "serving"
    /\ pending.path # "none"
    /\ LET req == [Request("export_shapefile", pending.table) EXCEPT
                      !.existed = TRUE, !.imported = pending.imported]
       IN  IF pending.file \in tmpfs
           THEN last' = Response(req, 200, "zip", pending.n)
           ELSE last' = Response(req, 500, "file does not exist", 0)
    /\ pending' = NoPending
    /\ UNCHANGED <<databaseUrl, dbNames, pc, DATABASE_URL_SYNC,
                   DATABASE_URL_ASYNC, tables, conns, tmpfs, reading>>

\* ------------------------------------------------------- the specification
\* the process before main.py is imported: the environment variable is unset,
\* a postgres:// URL or a postgresql:// URL; the DB_* names are bound or not;
\* the database holds no table
Init ==
    /\ databaseUrl \in {Unset, Url("postgres", CloudTarget), Url("postgresql", CloudTarget)}
    /\ dbNames \in {Unbound, LocalTarget}
    /\ pc = "import"
    /\ DATABASE_URL_SYNC = NoUrl
    /\ DATABASE_URL_ASYNC = NoUrl
    /\ tables = [t \in TableNames |-> NoTable]
    /\ conns = 0
    /\ tmpfs = {}
    /\ pending = NoPending
    /\ reading = NoReading
    /\ last = NoRequest

Next ==
    \/ Configure
    \/ startup_msg
    \/ test_db
    \/ get_layers
    \/ get_layer_geojson
    \/ get_layer_geojson_query
    \/ upload_file
    \/ run_custom_query
    \/ create_buffer
    \/ export_shapefile
    \/ SendFileResponse
    \/ add_field
    \/ delete_layer

Spec == Init /\ [][Next]_vars

\* the buffer endpoint alone, on a server that is up: one request, received
\* with any centroid
InitBuffer ==
    /\ databaseUrl = Url("postgres", CloudTarget)
    /\ dbNames = LocalTarget
    /\ pc = "serving"
    /\ DATABASE_URL_SYNC = Url("postgresql", CloudTarget)
    /\ DATABASE_URL_ASYNC = Url("postgresql+asyncpg", CloudTarget)
    /\ tables = [t \in TableNames |-> NoTable]
    /\ conns = 0
    /\ tmpfs = {}
    /\ pending = NoPending
    /\ reading = NoReading
    /\ \E lon \in Longitudes, lat \in Latitudes :
          last = [Request("create_buffer", <<>>) EXCEPT !.lon = lon, !.lat = lat]

NextBuffer == create_buffer_received

SpecBuffer == InitBuffer /\ [][NextBuffer]_vars


\* ================================================================ claims
\* a response of get_db_connection's handlers given on a connection that was
\* acquired and on which no database call failed for the server's reasons
Answered(op) ==
    last.op = op /\ last.status # 0 /\ last.acquired /\ ~last.faulted

\* C1: when every request has completed, the connection each handler acquired
\* with get_db_connection has been closed: no connection is left open.
C1_NoConnectionLeftOpen ==
    (pc = "serving" /\ pending.path = "none" /\ ~reading.active) => conns = 0

\* C2: every layer an upload has just persisted stores its geometries in
\* EPSG 4326, whatever reference system the dataset carried, none included.
C2_UploadedLayerIsGeographic ==
    (last.op = "upload_file" /\ last.status = 200)
        => tables[last.table].srid = EPSG_WGS84

\* C3: an upload of a .zip with no .shp entry is answered 400, creates or
\* replaces no table, and leaves nothing of its temporary directory.
C3_ZipWithoutShpIsBadRequest ==
    (last.op = "upload_file" /\ last.body = "zip without shp")
        => /\ last.status = 400
           /\ ~last.changed
           /\ \A f \in tmpfs : f.dir # "upload"

\* C4 as stated: with the database reachable, get_layer_geojson of a table
\* that is empty, or that does not exist any more, answers the empty
\* FeatureCollection and never an error.
C4_EmptyOrDroppedIsEmptyCollection ==
    (Answered("get_layer_geojson")
       /\ (~last.existed \/ ~Exists(tables, last.table)
                         \/ tables[last.table].rows = 0))
        => last.status = 200 /\ last.body = "FeatureCollection" /\ last.n = 0

\* C4 as amended: with the database reachable and a table name that is a plain
\* lower-case identifier, get_layer_geojson answers the empty
\* FeatureCollection for an empty table that exists throughout the request,
\* and 404 "Layer not found" for a table that does not exist when the request
\* starts (one dropped by delete_layer before it included).
C4_EmptyIsEmptyCollectionDroppedIsNotFound ==
    (Answered("get_layer_geojson") /\ IsPlainIdent(last.table))
        => /\ (last.existed /\ Exists(tables, last.table)
                             /\ tables[last.table].rows = 0)
                => (last.status = 200 /\ last.body = "FeatureCollection" /\ last.n = 0)
           /\ ~last.existed
                => (last.status = 404 /\ last.body = "Layer not found")

C4_Witness ==
    /\ Answered("get_layer_geojson") /\ IsPlainIdent(last.table)
    /\ Exists(tables, last.table) /\ tables[last.table].rows = 0
    /\ last.status = 200 /\ last.n = 0

\* C5: an export of a table that an upload wrote and nothing changed since,
\* with the database and the file system working, succeeds and delivers a zip
\* of as many features as the upload reported.
C5_ExportDeliversImportedCount ==
    (last.op = "export_shapefile" /\ last.status # 0 /\ ~last.faulted
       /\ last.imported > 0)
        => last.status = 200 /\ last.n = last.imported

\* C6: with the database reachable, delete_layer of an identifier that names
\* no existing table answers {"status": "deleted"} and changes no table.
C6_DeleteOfAbsentTableSucceeds ==
    (Answered("delete_layer") /\ ~last.existed)
        => last.status = 200 /\ last.body = "deleted" /\ ~last.changed

\* C7: the projected system create_buffer chooses for a centroid (x, y) is
\* EPSG 32600 + floor((x + 186) / 6) when y > 0 and 32700 + floor((x + 186) / 6)
\* otherwise; (-122, 37) selects 32610 and (151, -33) selects 32756.
C7_UtmSridIsZoneFormula ==
    Answered("create_buffer")
        => /\ \E z \in -2..63 :
                /\ 6 * z <= last.lon + 186
                /\ last.lon + 186 < 6 * z + 6
                /\ last.srid = (IF last.lat > 0 THEN 32600 ELSE 32700) + z
           /\ (last.lon = -122 /\ last.lat = 37) => last.srid = 32610
           /\ (last.lon = 151 /\ last.lat = -33) => last.srid = 32756

C7_Witness ==
    /\ Answered("create_buffer") /\ last.status = 200
    /\ last.lon = -122 /\ last.lat = 37 /\ last.srid = 32610

\* C8: once the module is imported, configuration has completed and the one
\* target selected from DATABASE_URL (its value with postgres:// normalised
\* when set, the local default when unset) is the target of the shared engine
\* and of get_db_connection.
C8_ConfigurationSelectsOneTarget ==
    pc # "import"
        => /\ pc # "crashed_import"
           /\ DATABASE_URL_SYNC =
                (IF databaseUrl = Unset THEN Url("postgresql", LocalTarget)
                 ELSE Url("postgresql", databaseUrl.rest))
           /\ ConnectionTarget = EngineTarget

\* C9: while a file-download response of export_shapefile waits to be sent,
\* the zip archive it refers to exists.
C9_ZipExistsUntilSent ==
    pending.path # "none" => pending.file \in tmpfs

\* C10: for a centroid longitude in [-180, 180], at any latitude, the SRID
\* create_buffer selects names a UTM zone 1..60: 32601..32660 when the
\* latitude is > 0, 32701..32760 otherwise.
C10_SridNamesUtmZone ==
    (Answered("create_buffer") /\ last.lon >= -180 /\ last.lon <= 180)
        => IF last.lat > 0 THEN last.srid \in 32601..32660
                           ELSE last.srid \in 32701..32760

====
